---- MODULE Spec2Model ----
(* Model of the Soccer record store (src/Soccer.cpp): a text file of        *)
(* "name,goals" lines that is listed, appended to and rewritten in place.   *)
(* Text is a sequence of one-character strings; NL is the line terminator.  *)
EXTENDS Integers, Sequences, FiniteSets, TLC

\* ---------------------------------------------------------------- bounds
\* number of file-changing operations one behaviour performs
MaxOps == 2

\* ------------------------------------------------------------- characters
NL == "\n"
COMMA == ","
SP == " "
Digits == <<"0", "1", "2", "3", "4", "5", "6", "7", "8", "9">>
IsDigit(c) == \E i \in 1..10 : Digits[i] = c
DigitVal(c) == (CHOOSE i \in 1..10 : Digits[i] = c) - 1

\* width of int: operator>> clamps to these on overflow
IntMax == 2147483647
IntMin == (0 - IntMax) - 1

\* values an uninitialised 'int goals' may hold when operator>> leaves it untouched
Indeterminate == {0, 9}

\* ------------------------------------------------- formatting (operator<<)
RECURSIVE NatChars(_)
NatChars(n) == IF n < 10 THEN <<Digits[n + 1]>>
               ELSE NatChars(n \div 10) \o <<Digits[(n % 10) + 1]>>

\* a formatter that loses the sign of a negative count
IntCharsNoSign(n) == IF n < 0 THEN NatChars(0 - n) ELSE NatChars(n)

\* out << int
IntChars(n) == IF n < 0 THEN <<"-">> \o NatChars(0 - n) ELSE NatChars(n)

\* out << name << "," << goals << "\n"
FormatLine(name, goals) == name \o <<COMMA>> \o IntChars(goals) \o <<NL>>

RECURSIVE FormatPlayers(_)
FormatPlayers(ps) == IF ps = <<>> THEN <<>>
                     ELSE FormatLine(Head(ps).name, Head(ps).goals) \o FormatPlayers(Tail(ps))

\* ----------------------------------------------------- parsing (getline, >>)
\* index of the first occurrence of c in s at or after i, or Len(s)+1
RECURSIVE FindFrom(_, _, _)
FindFrom(s, c, i) == IF i > Len(s) THEN Len(s) + 1
                     ELSE IF s[i] = c THEN i ELSE FindFrom(s, c, i + 1)

\* while (getline(file, line)): the lines of the file; a final unterminated
\* non-empty segment is a line, a terminated file has no extra empty line
RECURSIVE SplitLines(_)
SplitLines(f) ==
    IF f = <<>> THEN <<>>
    ELSE LET k == FindFrom(f, NL, 1)
         IN  IF k > Len(f) THEN <<f>>
             ELSE <<SubSeq(f, 1, k - 1)>> \o SplitLines(SubSeq(f, k + 1, Len(f)))

\* sentry of operator>>: skip leading whitespace
RECURSIVE SkipWs(_)
SkipWs(s) == IF s # <<>> /\ Head(s) = SP THEN SkipWs(Tail(s)) ELSE s

\* accumulate leading digits as a non-positive number (the int range
\* reaches one further below zero); Overflowed once the magnitude leaves it
Overflowed == 1
RECURSIVE DigitsValue(_, _)
DigitsValue(s, acc) ==
    IF s = <<>> \/ ~IsDigit(Head(s)) THEN acc
    ELSE LET d == DigitVal(Head(s))
         IN  IF acc = Overflowed \/ acc < IntMin \div 10 + 1
                \/ (acc = IntMin \div 10 + 1 /\ d > 8)
             THEN DigitsValue(Tail(s), Overflowed)
             ELSE DigitsValue(Tail(s), acc * 10 - d)

\* ss >> goals on the text after the comma.  init = FALSE: the sentry failed
\* (nothing but whitespace left) and goals keeps its uninitialised value.
\* Otherwise num_get stores the parsed value, 0 when no digits are found,
\* the nearest int bound on overflow.
ParseGoals(rest) ==
    LET t == SkipWs(rest)
    IN  IF t = <<>> THEN [init |-> FALSE, val |-> 0]
        ELSE LET neg  == Head(t) = "-"
                 body == IF Head(t) = "-" \/ Head(t) = "+" THEN Tail(t) ELSE t
             IN  IF body = <<>> \/ ~IsDigit(Head(body)) THEN [init |-> TRUE, val |-> 0]
                 ELSE LET m == DigitsValue(body, 0)
                      IN  IF neg
                          THEN [init |-> TRUE, val |-> IF m = Overflowed THEN IntMin ELSE m]
                          ELSE [init |-> TRUE,
                                val |-> IF m = Overflowed \/ m = IntMin THEN IntMax ELSE 0 - m]

\* stringstream ss(line); getline(ss, name, ','); ss >> goals;
\* with no comma getline hits end of stream and >> does not touch goals
ParseLine(line) ==
    LET k == FindFrom(line, COMMA, 1)
    IN  IF k > Len(line)
        THEN [name |-> line, goals |-> 0, init |-> FALSE]
        ELSE LET g == ParseGoals(SubSeq(line, k + 1, Len(line)))
             IN  [name |-> SubSeq(line, 1, k - 1), goals |-> g.val, init |-> g.init]

\* if (line.empty()) continue;
SkipLine(line) == line = <<>>

RECURSIVE ParseLines(_)
ParseLines(ls) ==
    IF ls = <<>> THEN <<>>
    ELSE IF SkipLine(Head(ls)) THEN ParseLines(Tail(ls))
    ELSE <<ParseLine(Head(ls))>> \o ParseLines(Tail(ls))

\* the read loop of displayPlayers and updatePlayer
ReadPlayers(f) == ParseLines(SplitLines(f))

\* the possible contents of the uninitialised goals, one choice per record
Choices(recs) == [{i \in 1..Len(recs) : ~recs[i].init} -> Indeterminate]

\* the records as the program sees them under one such choice
Resolve(recs, us) ==
    [i \in 1..Len(recs) |->
        [name |-> recs[i].name, goals |-> IF recs[i].init THEN recs[i].goals ELSE us[i]]]

\* every sequence of Records a list of file f can produce
Listings(f) == {Resolve(ReadPlayers(f), us) : us \in Choices(ReadPlayers(f))}

\* ------------------------------------------------------------------ inputs
Messi == <<"M", "e", "s", "s", "i">>
Rapinoe == <<"R", "a", "p", "i", "n", "o", "e">>
Ronaldo == <<"R", "o", "n", "a", "l", "d", "o">>

\* create << "Messi,12\n"; create << "Rapinoe,9\n"; create << "Ronaldo,10\n";
SeedFile == FormatLine(Messi, 12) \o FormatLine(Rapinoe, 9) \o FormatLine(Ronaldo, 10)

\* names a caller passes: a seed name, a new name, a name holding the delimiter
Names == {Messi, <<"B">>, <<"A", COMMA, "B">>}

\* goal counts a caller passes
Goals == {-5, 1, 100}

\* contents of a file found at the path before the first construction:
\* empty; blank and whitespace-only lines between records; no final newline;
\* the lines two earlier addPlayer("A,B", 100) calls left
PreFiles == { <<>>,
              <<"A", COMMA, "1", NL, NL, SP, NL, "B", COMMA, "2", NL>>,
              <<"A", COMMA, "1", "0">>,
              <<"A", COMMA, "B", COMMA, "1", "0", "0", NL,
                "A", COMMA, "B", COMMA, "1", "0", "0", NL>> }

\* contents of the file two racing callers start from
RaceFiles == { SeedFile, <<"B", COMMA, "1", "0", "0", NL>> }

NoPlayers == <<>>
NoName == <<>>

\* ------------------------------------------------------------------- state
VARIABLES
    fexists,      \* a file is present at filename_
    file,         \* its bytes
    canRead,      \* the file's mode lets this process read it
    canWrite,     \* the file's mode lets this process write it
    canCreate,    \* the directory lets this process create the file
    constructed,  \* a Soccer object exists (the constructor has run)
    last,         \* the last call: arguments, file before it, what it reported
    nops,         \* file-changing calls made so far
    run,          \* the Records added by the addPlayer calls since the file was last rewritten, and the file before them
    rpc,          \* racing callers: position of each caller
    rop,          \* racing callers: the call each caller makes
    rmem,         \* racing callers: updatePlayer's local vector 'players'
    rsnap,        \* racing callers: the bytes updatePlayer read
    rstale,       \* racing callers: the file changed between a caller's read and its rewrite
    file0         \* racing callers: the bytes before either call

fsvars == <<fexists, file, canRead, canWrite, canCreate>>
seqvars == <<constructed, last, nops, run>>
racevars == <<rpc, rop, rmem, rsnap, rstale, file0>>
vars == <<fexists, file, canRead, canWrite, canCreate, constructed, last, nops, run,
          rpc, rop, rmem, rsnap, rstale, file0>>

Callers == {1, 2}

Call(op, ok, name, goals, outcome, mem) ==
    [op |-> op, ok |-> ok, name |-> name, goals |-> goals,
     before |-> file, bexists |-> fexists, outcome |-> outcome, mem |-> mem]

\* --------------------------------------------------------------- open modes
\* ifstream in(filename_)
OpenRead == fexists /\ canRead
\* ofstream out(filename_) and ofstream out(filename_, ios::app): creates a missing file
OpenWrite == IF fexists THEN canWrite ELSE canCreate
\* an open for update that asks for write access only
OpenReadWriteOutOnly == fexists /\ canWrite
\* fstream file(filename_, ios::in | ios::out): never creates the file
OpenReadWrite == fexists /\ canRead /\ canWrite

\* file.seekp(0, ios::beg) and the writes that follow: the new bytes replace
\* the first bytes of the file, the file is never shortened
Overwrite(old, new) ==
    IF Len(new) >= Len(old) THEN new
    ELSE new \o SubSeq(old, Len(new) + 1, Len(old))

\* a write without ios::app: the previous bytes are discarded
AppendBytesTrunc(old, new) == new

\* ofstream(filename_, ios::app) << ...: the bytes go after the last byte
AppendBytes(old, new) == old \o new

\* a comparison that accepts every Record
NameMatchesAny(recName, name) == TRUE

\* p.first == name
NameMatches(recName, name) == recName = name

\* step 2 of updatePlayer: set the goals of every match, else push_back
UpdateMatching(players, name, newGoals) ==
    [i \in 1..Len(players) |->
        IF NameMatches(players[i].name, name)
        THEN [name |-> players[i].name, goals |-> newGoals]
        ELSE players[i]]

Found(players, name) == \E i \in 1..Len(players) : NameMatches(players[i].name, name)

Modify(players, name, newGoals) ==
    IF Found(players, name) THEN UpdateMatching(players, name, newGoals)
    ELSE Append(players, [name |-> name, goals |-> newGoals])

\* ----------------------------------------------------------------- actions
Init ==
    /\ fexists \in BOOLEAN
    /\ file \in (IF fexists THEN PreFiles ELSE {<<>>})
    /\ canRead \in BOOLEAN
    /\ canWrite \in BOOLEAN
    /\ canCreate \in BOOLEAN
    /\ constructed = FALSE
    /\ last = [op |-> "none", ok |-> TRUE, name |-> NoName, goals |-> 0,
               before |-> file, bexists |-> fexists, outcome |-> "none", mem |-> NoPlayers]
    /\ nops = 0
    /\ run = [base |-> file, recs |-> NoPlayers]
    /\ rpc = [p \in Callers |-> "off"]
    /\ rop = [p \in Callers |-> [kind |-> "none", name |-> NoName, goals |-> 0]]
    /\ rmem = [p \in Callers |-> NoPlayers]
    /\ rsnap = [p \in Callers |-> <<>>]
    /\ rstale = [p \in Callers |-> FALSE]
    /\ file0 = <<>>

\* a bootstrap that writes the seed file without looking for an existing one
EnsureFileExistsAlways ==
    /\ IF OpenWrite
       THEN /\ file' = SeedFile
            /\ fexists' = TRUE
            /\ canRead' = (IF fexists THEN canRead ELSE TRUE)
            /\ canWrite' = (IF fexists THEN canWrite ELSE TRUE)
            /\ UNCHANGED canCreate
            /\ last' = Call("construct", TRUE, NoName, 0, "created", NoPlayers)
       ELSE /\ UNCHANGED fsvars
            /\ last' = Call("construct", FALSE, NoName, 0, "none", NoPlayers)
    /\ run' = (IF ~OpenWrite THEN run ELSE [base |-> SeedFile, recs |-> NoPlayers])
    /\ constructed' = TRUE
    /\ UNCHANGED <<nops, racevars>>

\* Soccer::Soccer -> ensureFileExists
EnsureFileExists ==
    /\ IF OpenRead
       THEN /\ UNCHANGED fsvars
            /\ last' = Call("construct", TRUE, NoName, 0, "kept", NoPlayers)
       ELSE IF OpenWrite
            THEN /\ file' = SeedFile
                 /\ fexists' = TRUE
                 /\ canRead' = (IF fexists THEN canRead ELSE TRUE)
                 /\ canWrite' = (IF fexists THEN canWrite ELSE TRUE)
                 /\ UNCHANGED canCreate
                 /\ last' = Call("construct", TRUE, NoName, 0, "created", NoPlayers)
            ELSE /\ UNCHANGED fsvars
                 /\ last' = Call("construct", FALSE, NoName, 0, "none", NoPlayers)
    /\ run' = (IF OpenRead \/ ~OpenWrite THEN run ELSE [base |-> SeedFile, recs |-> NoPlayers])
    /\ constructed' = TRUE
    /\ UNCHANGED <<nops, racevars>>

\* Soccer::displayPlayers
DisplayPlayers ==
    /\ constructed
    /\ IF ~OpenRead
       THEN last' = Call("display", FALSE, NoName, 0, "error", NoPlayers)
       ELSE \E us \in Choices(ReadPlayers(file)) :
                last' = Call("display", TRUE, NoName, 0, "listed", Resolve(ReadPlayers(file), us))
    /\ UNCHANGED <<fsvars, constructed, nops, run, racevars>>

\* Soccer::addPlayer
AddPlayer(name, goals) ==
    /\ constructed
    /\ nops < MaxOps
    /\ nops' = nops + 1
    /\ IF ~OpenWrite
       THEN /\ last' = Call("add", FALSE, name, goals, "error", NoPlayers)
            /\ UNCHANGED <<fsvars, run>>
       ELSE /\ file' = AppendBytes(file, FormatLine(name, goals))
            /\ fexists' = TRUE
            /\ canRead' = (IF fexists THEN canRead ELSE TRUE)
            /\ canWrite' = (IF fexists THEN canWrite ELSE TRUE)
            /\ UNCHANGED canCreate
            /\ last' = Call("add", TRUE, name, goals, "added", NoPlayers)
            /\ run' = [run EXCEPT !.recs = Append(@, [name |-> name, goals |-> goals])]
    /\ UNCHANGED <<constructed, racevars>>

\* Soccer::updatePlayer
UpdatePlayer(name, newGoals) ==
    /\ constructed
    /\ nops < MaxOps
    /\ nops' = nops + 1
    /\ IF ~OpenReadWrite
       THEN /\ last' = Call("update", FALSE, name, newGoals, "error", NoPlayers)
            /\ UNCHANGED <<fsvars, run>>
       ELSE \E us \in Choices(ReadPlayers(file)) :
              LET players == Resolve(ReadPlayers(file), us)
                  final   == Modify(players, name, newGoals)
              IN  /\ file' = Overwrite(file, FormatPlayers(final))
                  /\ last' = Call("update", TRUE, name, newGoals,
                                  IF Found(players, name) THEN "updated" ELSE "inserted", final)
                  /\ run' = [base |-> file', recs |-> NoPlayers]
                  /\ UNCHANGED <<fexists, canRead, canWrite, canCreate>>
    /\ UNCHANGED <<constructed, racevars>>

Next ==
    \/ EnsureFileExists
    \/ DisplayPlayers
    \/ \E n \in Names, g \in Goals : AddPlayer(n, g)
    \/ \E n \in Names, g \in Goals : UpdatePlayer(n, g)

Spec == Init /\ [][Next]_vars

\* ------------------------------------------------ two callers, one file
\* Two Soccer objects (or processes) on the same path, each making one call.
\* addPlayer is one write; updatePlayer reads (steps 1-2), then rewrites
\* (steps 3-5), and the other caller may run in between: nothing locks the file.
NoCall == [kind |-> "none", name |-> NoName, goals |-> 0]

InitRace ==
    /\ fexists = TRUE
    /\ file \in RaceFiles
    /\ canRead = TRUE
    /\ canWrite = TRUE
    /\ canCreate = TRUE
    /\ constructed = TRUE
    /\ last = [op |-> "none", ok |-> TRUE, name |-> NoName, goals |-> 0,
               before |-> file, bexists |-> fexists, outcome |-> "none", mem |-> NoPlayers]
    /\ nops = 0
    /\ run = [base |-> file, recs |-> NoPlayers]
    /\ rpc = [p \in Callers |-> "idle"]
    /\ rop = [p \in Callers |-> NoCall]
    /\ rmem = [p \in Callers |-> NoPlayers]
    /\ rsnap = [p \in Callers |-> <<>>]
    /\ rstale = [p \in Callers |-> FALSE]
    /\ file0 = file

\* addPlayer by caller p
RaceAddPlayer(p, name, goals) ==
    /\ rpc[p] = "idle"
    /\ file' = AppendBytes(file, FormatLine(name, goals))
    /\ rpc' = [rpc EXCEPT ![p] = "done"]
    /\ rop' = [rop EXCEPT ![p] = [kind |-> "add", name |-> name, goals |-> goals]]
    /\ UNCHANGED <<fexists, canRead, canWrite, canCreate, seqvars, rmem, rsnap, rstale, file0>>

\* updatePlayer by caller p, steps 1 and 2: read the file, modify the vector
RaceUpdateRead(p, name, newGoals) ==
    /\ rpc[p] = "idle"
    /\ \E us \in Choices(ReadPlayers(file)) :
          rmem' = [rmem EXCEPT ![p] = Modify(Resolve(ReadPlayers(file), us), name, newGoals)]
    /\ rsnap' = [rsnap EXCEPT ![p] = file]
    /\ rpc' = [rpc EXCEPT ![p] = "rewrite"]
    /\ rop' = [rop EXCEPT ![p] = [kind |-> "update", name |-> name, goals |-> newGoals]]
    /\ UNCHANGED <<fsvars, seqvars, rstale, file0>>

\* the files one whole call, run alone on file f, can leave
ApplyCall(f, c) ==
    IF c.kind = "add" THEN {AppendBytes(f, FormatLine(c.name, c.goals))}
    ELSE {Overwrite(f, FormatPlayers(Modify(Resolve(ReadPlayers(f), us), c.name, c.goals))) :
             us \in Choices(ReadPlayers(f))}

\* a rewrite that reads the file again under a lock, so that the whole call
\* takes effect at this step
RaceUpdateRewriteFresh(p) ==
    /\ rpc[p] = "rewrite"
    /\ file' \in ApplyCall(file, rop[p])
    /\ rstale' = [rstale EXCEPT ![p] = (file # rsnap[p])]
    /\ rpc' = [rpc EXCEPT ![p] = "done"]
    /\ UNCHANGED <<fexists, canRead, canWrite, canCreate, seqvars, rop, rmem, rsnap, file0>>

\* updatePlayer by caller p, steps 3 to 5: seek to the start, write the vector
RaceUpdateRewrite(p) ==
    /\ rpc[p] = "rewrite"
    /\ file' = Overwrite(file, FormatPlayers(rmem[p]))
    /\ rstale' = [rstale EXCEPT ![p] = (file # rsnap[p])]
    /\ rpc' = [rpc EXCEPT ![p] = "done"]
    /\ UNCHANGED <<fexists, canRead, canWrite, canCreate, seqvars, rop, rmem, rsnap, file0>>

NextRace ==
    \/ \E p \in Callers, n \in Names, g \in Goals : RaceAddPlayer(p, n, g)
    \/ \E p \in Callers, n \in Names, g \in Goals : RaceUpdateRead(p, n, g)
    \/ \E p \in Callers : RaceUpdateRewrite(p)

SpecRace == InitRace /\ [][NextRace]_vars

\* the files the two calls leave when a runs to completion before b starts
Serial(f, a, b) == UNION {ApplyCall(f1, b) : f1 \in ApplyCall(f, a)}

BothDone == \A p \in Callers : rpc[p] = "done"

\* the final file is the result of neither serial order
Corrupted == BothDone /\ file \notin (Serial(file0, rop[1], rop[2]) \cup Serial(file0, rop[2], rop[1]))


\* ---------------------------------------------------------------- properties
HasDelimiter(name) == \E i \in 1..Len(name) : name[i] = COMMA \/ name[i] = NL
EndsLine(f) == f = <<>> \/ f[Len(f)] = NL
IsBlank(line) == \A i \in 1..Len(line) : line[i] = SP
Rec(name, goals) == [name |-> name, goals |-> goals]
NamesOf(recs) == [i \in 1..Len(recs) |-> recs[i].name]
CountName(recs, name) == Cardinality({i \in 1..Len(recs) : recs[i].name = name})
\* the decimal text of each goal count a caller passes, written out by hand
DecimalOf(g) == CASE g = -5 -> <<"-", "5">>
                  [] g = 1 -> <<"1">>
                  [] g = 100 -> <<"1", "0", "0">>
SeedRecords == <<Rec(Messi, 12), Rec(Rapinoe, 9), Rec(Ronaldo, 10)>>
Updated == last.op = "update" /\ last.ok
Added == last.op = "add" /\ last.ok

\* C1 (as claimed): after any run of addPlayer calls, every list returns the
\* Records present before the run followed by the added Records, in order and
\* with identical (name, goals), whatever the names
C1_RoundTripAnyName ==
    run.recs # <<>> =>
        \A L \in Listings(file) : \E B \in Listings(run.base) : L = B \o run.recs

\* C1 (amended): the same, when no added name holds a comma or a newline and
\* the file before the run is empty or ends with a newline
C1_RoundTrip ==
    (/\ run.recs # <<>>
     /\ \A i \in 1..Len(run.recs) : ~HasDelimiter(run.recs[i].name)
     /\ EndsLine(run.base))
    => /\ \A L \in Listings(file) : \E B \in Listings(run.base) : L = B \o run.recs
       /\ \A B \in Listings(run.base) : B \o run.recs \in Listings(file)

C1_Witness ==
    /\ Len(run.recs) = 2
    /\ run.recs[1] # run.recs[2]
    /\ run.recs[2].goals < 0
    /\ \A i \in 1..2 : ~HasDelimiter(run.recs[i].name)
    /\ EndsLine(run.base)
    /\ ReadPlayers(run.base) # <<>>
    /\ last.op = "display" /\ last.ok

\* C2: after a successful updatePlayer the file is exactly the lines of the
\* final in-memory sequence, with no bytes of the previous content after
\* them, and a list returns exactly that sequence
C2_NoLeftoverBytes ==
    Updated => /\ file = FormatPlayers(last.mem)
               /\ ~HasDelimiter(last.name) => Listings(file) = {last.mem}

\* C3: updatePlayer on a name the store holds reports 'updated', sets the
\* goals of every Record with that name, and leaves the number of Records
\* with that name and the total number of Records listed unchanged
C3_UpsertUpdate ==
    (Updated /\ Found(ReadPlayers(last.before), last.name)) =>
        /\ last.outcome = "updated"
        /\ \A L \in Listings(file) :
              /\ \A i \in 1..Len(L) : L[i].name = last.name => L[i].goals = last.goals
              /\ CountName(L, last.name) = CountName(ReadPlayers(last.before), last.name)
              /\ Len(L) = Len(ReadPlayers(last.before))

\* C4: updatePlayer on a name the store does not hold reports 'inserted' and
\* a list then returns the previous Records followed by the new Record as the
\* last entry (stated for names free of the delimiter)
C4_UpsertInsert ==
    (Updated /\ ~Found(ReadPlayers(last.before), last.name) /\ ~HasDelimiter(last.name)) =>
        /\ last.outcome = "inserted"
        /\ \A L \in Listings(file) :
              \E B \in Listings(last.before) : L = Append(B, Rec(last.name, last.goals))

\* C5: a list, append or upsert that cannot open the file in the mode it needs
\* reports the failure and leaves the file's bytes and its existence unchanged
C5_OpenFailure ==
    LET cannotOpen ==
            \/ last.op = "display" /\ ~(last.bexists /\ canRead)
            \/ last.op = "add" /\ ~(IF last.bexists THEN canWrite ELSE canCreate)
            \/ last.op = "update" /\ ~(last.bexists /\ canRead /\ canWrite)
    IN  cannotOpen => /\ ~last.ok
                      /\ last.outcome = "error"
                      /\ file = last.before
                      /\ fexists = last.bexists

C5_Witness ==
    /\ last.op = "update" /\ ~last.ok /\ ~last.bexists
    /\ ~fexists /\ canRead /\ canWrite

\* C6: constructing where no file exists (and one can be created) leaves
\* exactly the three seed Records; constructing where a readable file exists
\* leaves its content unchanged
C6_Bootstrap ==
    last.op = "construct" =>
        /\ (~last.bexists /\ canCreate) =>
              /\ fexists
              /\ file = <<"M", "e", "s", "s", "i", ",", "1", "2", "\n",
                          "R", "a", "p", "i", "n", "o", "e", ",", "9", "\n",
                          "R", "o", "n", "a", "l", "d", "o", ",", "1", "0", "\n">>
              /\ Listings(file) = {SeedRecords}
        /\ (last.bexists /\ canRead) => (file = last.before /\ fexists)

\* a second construction on the file the first one created, after it was modified
C6_Witness ==
    /\ last.op = "construct" /\ last.bexists /\ canRead
    /\ nops > 0
    /\ Len(file) > Len(SeedFile)
    /\ SubSeq(file, 1, 5) = Messi

\* C7: a list skips every line that is empty after trimming (zero-length or
\* whitespace only) and returns one Record for each remaining line, in order
C7_SkipsBlankLines ==
    (last.op = "display" /\ last.ok) =>
        LET kept == SelectSeq(SplitLines(file), LAMBDA l : ~IsBlank(l))
        IN  /\ Len(last.mem) = Len(kept)
            /\ \A i \in 1..Len(kept) : last.mem[i].name = ParseLine(kept[i]).name

\* C8: a successful addPlayer leaves the file as its previous bytes followed by
\* the one line "name,goals\n", also when the name is already in the store
C8_AppendFrame ==
    Added => file = last.before \o last.name \o <<",">> \o DecimalOf(last.goals) \o <<"\n">>

C8_Witness ==
    /\ Added
    /\ last.before # <<>>
    /\ Found(ReadPlayers(last.before), last.name)

\* C9: updatePlayer changes no other Record: every Record read from a
\* well-formed line (name, comma, number) before the call is listed afterwards
\* at the same position, with its name, and with its goals unless its name is
\* the target
C9_UpsertFrame ==
    Updated =>
        LET B == ReadPlayers(last.before)
        IN  \A L \in Listings(file) :
              /\ Len(L) >= Len(B)
              /\ \A i \in 1..Len(B) :
                    /\ L[i].name = B[i].name
                    /\ (B[i].init /\ B[i].name # last.name) => L[i].goals = B[i].goals

\* an update, after an earlier append, of a store that holds the target and others
C9_Witness ==
    /\ Updated
    /\ nops >= 2
    /\ last.outcome = "updated"
    /\ \A i \in 1..Len(ReadPlayers(last.before)) : ReadPlayers(last.before)[i].init
    /\ \E i \in 1..Len(ReadPlayers(last.before)) : ReadPlayers(last.before)[i].name # last.name
    /\ file # last.before

\* C10: when the file changed between a caller's read and its rewrite, the
\* rewrite is longer than what was read, and the two calls name different
\* players, the final file is the result of neither serial order, byte for
\* byte and Record for Record
Other(p) == 3 - p
Serials == Serial(file0, rop[1], rop[2]) \cup Serial(file0, rop[2], rop[1])
CorruptedRecords == BothDone /\ \A f \in Serials : Listings(file) \cap Listings(f) = {}
Grew(p) == Len(FormatPlayers(rmem[p])) > Len(rsnap[p])
Raced(p) == BothDone /\ rstale[p] /\ Grew(p) /\ rop[p].name # rop[Other(p)].name

C10_RaceCorrupts == \A p \in Callers : Raced(p) => (Corrupted /\ CorruptedRecords)

\* caller 2 appended between caller 1's read and rewrite, and its Record is gone
C10_Witness ==
    /\ Raced(1)
    /\ rop[2].kind = "add"
    /\ ~HasDelimiter(rop[1].name) /\ ~HasDelimiter(rop[2].name)
    /\ \A L \in Listings(file) : ~Found(L, rop[2].name)
====
